---------------------------- MODULE Spec2Model ----------------------------
(***************************************************************************)
(* Model of src/src/data_processor.py: validate_data and process_data,     *)
(* with the helpers of src/src/utils.py they call.                         *)
(*                                                                         *)
(* A DataFrame is modelled column-major, as pandas stores it:              *)
(*   [index |-> number of rows, columns |-> sequence of column names,      *)
(*    data |-> sequence of column vectors, data[k] belonging to            *)
(*    columns[k]].                                                         *)
(* A cell is NaN (missing) or V(x) (the value x).                          *)
(***************************************************************************)
EXTENDS Integers, Sequences, FiniteSets, TLC

VARIABLES
    file,          \* what pd.read_csv(file_path) finds: a table or an error
    pc,            \* position of the running validate_data call
    vdf,           \* validate_data's local df
    exc,           \* the exception raised inside validate_data's try block
    log,           \* the diagnostics log_activity has emitted, in order
    evaluated,     \* the checks validate_data has evaluated, in order
    result,        \* what validate_data returned
    exits,         \* the statuses sys.exit has been called with
    heap,          \* the DataFrame objects, by reference
    df,            \* the caller's reference to its table
    processed_df,  \* the reference process_data returned
    now,           \* the clock: the value the next datetime.now() reads
    calls,         \* number of process_data calls made
    inputs,        \* per call: the argument table as it was at the call
    outputs,       \* per call: the returned table as it was at the return
    samples,       \* per call: the clock readings taken for processed_date
    report,        \* the dictionary generate_report returned
    config,        \* what load_config returned to __main__
    output_arg,    \* args.output: an output path was given
    mpc,           \* position of __main__
    stages,        \* the stages __main__ has carried out, in order
    outfile,       \* the table written to args.output
    printed,       \* the lines of the report summary printed
    max_attempts,  \* retry_operation's max_attempts
    delay,         \* retry_operation's delay
    attempt,       \* retry_operation's loop variable
    rpc,           \* position of the retry_operation call
    outcomes,      \* per call of operation: what it did
    sleeps,        \* the arguments of time.sleep, in order
    rresult        \* what retry_operation returned or raised

vvars == <<file, pc, vdf, exc, log, evaluated, result, exits>>
pvars == <<heap, df, processed_df, now, calls, inputs, outputs, samples>>
mvars == <<config, output_arg, mpc, stages, outfile, printed>>
tvars == <<max_attempts, delay, attempt, rpc, outcomes, sleeps, rresult>>
vars == <<file, pc, vdf, exc, log, evaluated, result, exits,
          heap, df, processed_df, now, calls, inputs, outputs, samples,
          report, config, output_arg, mpc, stages, outfile, printed,
          max_attempts, delay, attempt, rpc, outcomes, sleeps, rresult>>

----------------------------------------------------------------------------
(* Bounds *)

MaxRows == 6       \* rows of the tables validate_data is run on
MaxPRows == 3      \* rows of the tables process_data is run on
MaxCalls == 2      \* process_data calls in one run
MaxClock == 1      \* the clock's first reading is in 0..MaxClock

----------------------------------------------------------------------------
(* Cells and tables *)

None == "None"

True == "True"

NaN == [null |-> TRUE]
V(x) == [null |-> FALSE, v |-> x]

Range(s) == {s[i] : i \in 1..Len(s)}

RECURSIVE SumSeq(_)
SumSeq(s) == IF s = <<>> THEN 0 ELSE Head(s) + SumSeq(Tail(s))

\* Series.isnull().sum() of one column
NullCount(col) == Cardinality({i \in 1..Len(col) : col[i].null})

\* len(df)
LenDf(t) == t.index

\* emptiness judged by the columns alone
DfEmptyNoColumns(t) == Len(t.columns) = 0

\* DataFrame.empty: any axis of length 0
DfEmpty(t) == t.index = 0 \/ Len(t.columns) = 0

\* df.isnull().sum().sum(): the per-column null counts, summed
IsNullSumSum(t) == SumSeq([k \in 1..Len(t.data) |-> NullCount(t.data[k])])

\* len(df) * len(df.columns)
TotalCells(t) == LenDf(t) * Len(t.columns)

\* the single-column miscalculation: nulls of the first column over the rows
MissingTooManyFirstColumn(t) == 10 * NullCount(t.data[1]) > LenDf(t)

\* missing_percentage > 0.1, with missing_percentage = nulls / cells.
\* IEEE division is correctly rounded and 0.1 is the double nearest 1/10, so
\* the float comparison nulls / cells > 0.1 is the exact one 10*nulls > cells.
MissingTooMany(t) == 10 * IsNullSumSum(t) > TotalCells(t)

\* position of column name in df.columns (0 when absent)
ColPos(t, name) ==
    IF name \in Range(t.columns)
    THEN CHOOSE k \in 1..Len(t.columns) :
             /\ t.columns[k] = name
             /\ \A j \in 1..(k - 1) : t.columns[j] # name
    ELSE 0

\* df[name]
Col(t, name) == t.data[ColPos(t, name)]

\* Series.duplicated().sum(): entries equal to an earlier entry (NaN equals NaN)
DuplicatedSum(col) ==
    Cardinality({i \in 1..Len(col) : \E j \in 1..(i - 1) : col[j] = col[i]})

----------------------------------------------------------------------------
(* utils.log_activity *)

Entry(level, msg, n) == [level |-> level, msg |-> msg, n |-> n]

\* log_activity(message, level): one diagnostic appended to the output (the
\* wall-clock prefix of the printed line is left out of the entry)
LogActivity(l, level, msg, n) == Append(l, Entry(level, msg, n))

----------------------------------------------------------------------------
(* The files validate_data is run on *)

\* values a column of the given name holds
CellsOf(name) ==
    CASE name = "id" -> {NaN, V(1), V(2)}
      [] name = "value" -> {NaN, V(100), V(101), V(200), V(201)}
      [] name = "row_number" -> {V(1), V(5)}
      [] OTHER -> {NaN, V(7)}

\* the table pd.read_csv returns for a parsed file
Table(n, cs, d) == [index |-> n, columns |-> cs, data |-> d]

ParsedFile(t) == [kind |-> "table", table |-> t]

FailedFile(e) == [kind |-> "error", error |-> e]

\* header rows of the files validate_data is run on
VOneColumn == {"id", "name"}

VTwoColumns == {<<"id", "name">>, <<"name", "note">>}

\* errors pd.read_csv raises: missing file, malformed rows, no columns, bad bytes
LoaderErrors == {"FileNotFoundError", "ParserError", "EmptyDataError", "UnicodeDecodeError"}

\* classes caught by "except Exception"
ExceptionSubclasses == LoaderErrors \cup {"ValueError"}

\* a narrower handler: only the errors validate_data raises itself
CaughtValueErrorOnly(e) == e = "ValueError"

Caught(e) == e \in ExceptionSubclasses

\* the file is unreadable or malformed, or parses to a table of 0..MaxRows
\* rows under a header of one or two columns
InitFile ==
    \/ \E e \in LoaderErrors : file = FailedFile(e)
    \/ \E n \in 0..MaxRows, c \in VOneColumn :
           \E d \in [1..n -> CellsOf(c)] :
               file = ParsedFile(Table(n, <<c>>, <<d>>))
    \/ \E n \in 0..MaxRows, cs \in VTwoColumns :
           \E d1 \in [1..n -> CellsOf(cs[1])], d2 \in [1..n -> CellsOf(cs[2])] :
               file = ParsedFile(Table(n, cs, <<d1, d2>>))

NoTable == [index |-> 0, columns |-> <<>>, data |-> <<>>]

----------------------------------------------------------------------------
(* validate_data *)

InitValidate ==
    /\ pc = "start"
    /\ vdf = NoTable
    /\ exc = None
    /\ log = <<>>
    /\ evaluated = <<>>
    /\ result = None
    /\ exits = <<>>

InitProcessIdle ==
    /\ heap = <<>>
    /\ df = 0
    /\ processed_df = 0
    /\ now = 0
    /\ calls = 0
    /\ inputs = <<>>
    /\ outputs = <<>>
    /\ samples = <<>>

\* nothing returned or raised yet
Nothing == [kind |-> "none"]

\* nothing written to args.output
NoFile == [written |-> FALSE]

\* the empty dictionary
EmptyDict == <<>>

\* no report made yet
NoReport == [none |-> TRUE]

InitReportIdle == report = NoReport

InitMainIdle ==
    /\ config = EmptyDict
    /\ output_arg = FALSE
    /\ mpc = "idle"
    /\ stages = <<>>
    /\ outfile = NoFile
    /\ printed = <<>>

InitRetryIdle ==
    /\ max_attempts = 0
    /\ delay = 0
    /\ attempt = 0
    /\ rpc = "idle"
    /\ outcomes = <<>>
    /\ sleeps = <<>>
    /\ rresult = Nothing

\* lines 12-13: log the start, then df = pd.read_csv(file_path)
ReadCsv ==
    /\ pc = "start"
    /\ log' = LogActivity(log, "INFO", "Starting validation", 0)
    /\ IF file.kind = "table"
       THEN /\ vdf' = file.table
            /\ pc' = "loaded"
            /\ exc' = exc
       ELSE /\ vdf' = vdf
            /\ pc' = "except"
            /\ exc' = file.error
    /\ UNCHANGED <<file, evaluated, result, exits>>
    /\ UNCHANGED pvars
    /\ UNCHANGED <<report, mvars, tvars>>

\* lines 16-19: if df.empty: raise ValueError; else log the row count
CheckEmpty ==
    /\ pc = "loaded"
    /\ evaluated' = Append(evaluated, "empty")
    /\ IF DfEmpty(vdf)
       THEN /\ pc' = "except"
            /\ exc' = "ValueError"
            /\ log' = log
       ELSE /\ pc' = "missing"
            /\ exc' = exc
            /\ log' = LogActivity(log, "INFO", "Loaded rows", LenDf(vdf))
    /\ UNCHANGED <<file, vdf, result, exits>>
    /\ UNCHANGED pvars
    /\ UNCHANGED <<report, mvars, tvars>>

\* lines 22-24: the missing-values check
CheckMissing ==
    /\ pc = "missing"
    /\ evaluated' = Append(evaluated, "missing")
    /\ IF MissingTooMany(vdf)
       THEN /\ pc' = "except"
            /\ exc' = "ValueError"
       ELSE /\ pc' = "duplicates"
            /\ exc' = exc
    /\ UNCHANGED <<file, vdf, log, result, exits>>
    /\ UNCHANGED pvars
    /\ UNCHANGED <<report, mvars, tvars>>

\* a duplicate check that fails validation instead of warning
CheckDuplicatesRaise ==
    /\ pc = "duplicates"
    /\ evaluated' = Append(evaluated, "duplicates")
    /\ IF "id" \in Range(vdf.columns) /\ DuplicatedSum(Col(vdf, "id")) > 0
       THEN /\ pc' = "except"
            /\ exc' = "ValueError"
       ELSE /\ pc' = "passed"
            /\ exc' = exc
    /\ UNCHANGED <<file, vdf, log, result, exits>>
    /\ UNCHANGED pvars
    /\ UNCHANGED <<report, mvars, tvars>>

\* lines 27-30: the duplicate-id check, a warning only
CheckDuplicates ==
    /\ pc = "duplicates"
    /\ evaluated' = Append(evaluated, "duplicates")
    /\ IF "id" \in Range(vdf.columns) /\ DuplicatedSum(Col(vdf, "id")) > 0
       THEN log' = LogActivity(log, "WARNING", "Found duplicate IDs",
                               DuplicatedSum(Col(vdf, "id")))
       ELSE log' = log
    /\ pc' = "passed"
    /\ UNCHANGED <<file, vdf, exc, result, exits>>
    /\ UNCHANGED pvars
    /\ UNCHANGED <<report, mvars, tvars>>

\* lines 32-33: log "Data validation passed"; return True
ReturnTrue ==
    /\ pc = "passed"
    /\ log' = LogActivity(log, "INFO", "Data validation passed", 0)
    /\ result' = True
    /\ pc' = "returned"
    /\ UNCHANGED <<file, vdf, exc, evaluated, exits>>
    /\ UNCHANGED pvars
    /\ UNCHANGED <<report, mvars, tvars>>

\* lines 35-37: except Exception as e: log the ERROR; sys.exit(1).
\* An exception the clause does not catch leaves validate_data as raised.
ExceptExit ==
    /\ pc = "except"
    /\ IF Caught(exc)
       THEN /\ log' = LogActivity(log, "ERROR", "Validation failed", 0)
            /\ exits' = Append(exits, 1)
            /\ pc' = "exited"
       ELSE /\ log' = log
            /\ exits' = exits
            /\ pc' = "raised"
    /\ UNCHANGED <<file, vdf, exc, evaluated, result>>
    /\ UNCHANGED pvars
    /\ UNCHANGED <<report, mvars, tvars>>

NextValidate ==
    \/ ReadCsv
    \/ CheckEmpty
    \/ CheckMissing
    \/ CheckDuplicates
    \/ ReturnTrue
    \/ ExceptExit

InitV ==
    /\ InitFile
    /\ InitValidate
    /\ InitProcessIdle
    /\ InitReportIdle
    /\ InitMainIdle
    /\ InitRetryIdle

SpecV == InitV /\ [][NextValidate]_vars

----------------------------------------------------------------------------
(* process_data *)

\* datetime.isoformat(): the reading written as a string, one per reading
IsoFormat(t) == <<"iso", t>>

\* an assignment that always adds a new column
SetColumnAppend(t, name, vec) ==
    [t EXCEPT !.columns = Append(@, name), !.data = Append(@, vec)]

\* df[name] = vec: overwrite the column when the name exists, else add it last
SetColumn(t, name, vec) ==
    IF name \in Range(t.columns)
    THEN [t EXCEPT !.data[ColPos(t, name)] = vec]
    ELSE [t EXCEPT !.columns = Append(@, name), !.data = Append(@, vec)]

\* a timestamp read again for every row
ProcessedDateOfRowResampled(i, clock) == IsoFormat(clock + i - 1)

\* line 45: datetime.now().isoformat() is evaluated once and the scalar is
\* broadcast, so row i gets the one reading
ProcessedDateOfRow(i, clock) == IsoFormat(clock)

\* thresholds taken inclusively
CategorizeInclusive(x) ==
    IF ~x.null /\ x.v >= 200 THEN "high"
    ELSE IF ~x.null /\ x.v >= 100 THEN "medium"
    ELSE "low"

\* lines 49-50: 'high' if x > 200 else 'medium' if x > 100 else 'low'
\* (every comparison with NaN is False, so a missing value is 'low')
Categorize(x) ==
    IF ~x.null /\ x.v > 200 THEN "high"
    ELSE IF ~x.null /\ x.v > 100 THEN "medium"
    ELSE "low"

\* range(0, len(df))
RowNumbersFromZero(n) == [i \in 1..n |-> V(i - 1)]

\* line 53: range(1, len(df) + 1)
RowNumbers(n) == [i \in 1..n |-> V(i)]

\* lines 45-53 applied to the table t, the clock reading being clock
Enriched(t, clock) ==
    LET n == LenDf(t)
        t1 == SetColumn(t, "processed_date",
                        [i \in 1..n |-> V(ProcessedDateOfRow(i, clock))])
        t2 == IF "value" \in Range(t1.columns)
              THEN SetColumn(t1, "value_category",
                             [i \in 1..n |-> V(Categorize(Col(t1, "value")[i]))])
              ELSE t1
    IN  SetColumn(t2, "row_number", RowNumbers(n))

\* lines 40-56: process_data(df) assigns the columns on the object it was
\* given and returns that same object
ProcessData(ref) ==
    /\ heap' = [heap EXCEPT ![ref] = Enriched(heap[ref], now)]
    /\ processed_df' = ref
    /\ inputs' = Append(inputs, heap[ref])
    /\ outputs' = Append(outputs, Enriched(heap[ref], now))
    /\ samples' = Append(samples, <<now>>)
    /\ log' = LogActivity(LogActivity(log, "INFO", "Starting data processing", 0),
                          "INFO", "Processing completed", LenDf(heap[ref]))
    /\ now' = now + 1
    /\ calls' = calls + 1

\* result = process_data(sample_data)
ProcessCall ==
    /\ calls = 0
    /\ ProcessData(df)
    /\ UNCHANGED <<file, pc, vdf, exc, evaluated, result, exits, df>>
    /\ UNCHANGED <<report, mvars, tvars>>

\* process_data applied to the table an earlier call returned
ProcessAgain ==
    /\ calls >= 1
    /\ calls < MaxCalls
    /\ ProcessData(processed_df)
    /\ UNCHANGED <<file, pc, vdf, exc, evaluated, result, exits, df>>
    /\ UNCHANGED <<report, mvars, tvars>>

NextProcess ==
    \/ ProcessCall
    \/ ProcessAgain

\* header rows of the tables process_data is run on
POneColumn == {"name", "value"}

PTwoColumns == {<<"name", "value">>, <<"value", "row_number">>, <<"row_number", "name">>}

InitP ==
    /\ \/ \E n \in 0..MaxPRows, c \in POneColumn :
             \E d \in [1..n -> CellsOf(c)] :
                 heap = <<Table(n, <<c>>, <<d>>)>>
       \/ \E n \in 0..MaxPRows, cs \in PTwoColumns :
             \E d1 \in [1..n -> CellsOf(cs[1])], d2 \in [1..n -> CellsOf(cs[2])] :
                 heap = <<Table(n, cs, <<d1, d2>>)>>
    /\ df = 1
    /\ processed_df = 0
    /\ now \in 0..MaxClock
    /\ calls = 0
    /\ inputs = <<>>
    /\ outputs = <<>>
    /\ samples = <<>>
    /\ file = FailedFile("FileNotFoundError")
    /\ InitValidate
    /\ InitReportIdle
    /\ InitMainIdle
    /\ InitRetryIdle

SpecP == InitP /\ [][NextProcess]_vars

----------------------------------------------------------------------------
(* tests/test_data_processor.py, test_validate_missing_data_threshold *)

TestRows == 100

TestLetters == <<"A", "B", "C", "D", "E">>

\* lines 76-83: 100 rows of col1 = 1..5 and col2 = A..E repeated, then the
\* first missing_count cells of col1 set to None
TestFrame(missing_count) ==
    Table(TestRows, <<"col1", "col2">>,
          << [i \in 1..TestRows |->
                 IF i <= missing_count THEN NaN ELSE V(((i - 1) % 5) + 1)],
             [i \in 1..TestRows |-> V(TestLetters[((i - 1) % 5) + 1])] >>)

\* missing_count = int(len(df) * missing_percentage), any count of 0..100 rows
InitT ==
    /\ \E missing_count \in 0..TestRows : file = ParsedFile(TestFrame(missing_count))
    /\ InitValidate
    /\ InitProcessIdle
    /\ InitReportIdle
    /\ InitMainIdle
    /\ InitRetryIdle

SpecT == InitT /\ [][NextValidate]_vars

----------------------------------------------------------------------------
(* Properties of validate_data *)

Done == pc \in {"returned", "exited", "raised"}

Passed == pc = "returned" /\ result = True /\ exits = <<>>

Exited == pc = "exited" /\ exits = <<1>> /\ result = None

IsTable == file.kind = "table"

\* the missing cells of the whole grid, counted cell by cell
MissingCells(t) ==
    Cardinality({c \in (1..Len(t.columns)) \X (1..t.index) : t.data[c[1]][c[2]].null})

GridCells(t) == t.index * Len(t.columns)

RatioWithinThreshold(t) == 10 * MissingCells(t) <= GridCells(t)

Warnings == {i \in 1..Len(log) : log[i].level = "WARNING"}

HasMsg(m) == \E i \in 1..Len(log) : log[i].msg = m

\* rows whose id repeats the id of an earlier row: rows minus distinct ids
RepeatedIds(t) == t.index - Cardinality(Range(Col(t, "id")))

C2_ZeroRowsFail ==
    (IsTable /\ file.table.index = 0) =>
        /\ "missing" \notin Range(evaluated)
        /\ "duplicates" \notin Range(evaluated)
        /\ ~HasMsg("Data validation passed")
        /\ result # True
        /\ Done => (Exited /\ evaluated = <<"empty">> /\ exc = "ValueError")

C2_Witness ==
    /\ IsTable /\ file.table.index = 0 /\ Len(file.table.columns) = 2
    /\ Exited

\* C3: every failure (empty table, missing ratio over the threshold, an error
\* raised by the loader) ends in sys.exit(1) right after an ERROR diagnostic;
\* none leaves validate_data as a raised exception, and validate_data does not
\* return True after a failure.
C3_FailuresExit ==
    /\ pc # "raised"
    /\ exc # None => (pc \in {"except", "exited"} /\ result # True)
    /\ pc = "exited" =>
          /\ exc # None
          /\ exits = <<1>>
          /\ log[Len(log)] = Entry("ERROR", "Validation failed", 0)
    /\ pc = "returned" =>
          /\ exc = None
          /\ exits = <<>>
          /\ \A i \in 1..Len(log) : log[i].level # "ERROR"

C3_Witness ==
    /\ file.kind = "error" /\ file.error = "ParserError"
    /\ Exited
    /\ log[Len(log)].level = "ERROR"

\* C4 as claimed: for every table with an id column, a WARNING carrying N when
\* N > 0 and none when N = 0, and a non-empty table within the threshold passes.
C4_Original ==
    (IsTable /\ Done /\ "id" \in Range(file.table.columns)) =>
        /\ RepeatedIds(file.table) > 0 =>
              \E i \in Warnings :
                  /\ log[i] = Entry("WARNING", "Found duplicate IDs", RepeatedIds(file.table))
                  /\ Warnings = {i}
        /\ RepeatedIds(file.table) = 0 => Warnings = {}
        /\ (GridCells(file.table) > 0 /\ RatioWithinThreshold(file.table)) => Passed

\* C4: for a non-empty table with an id column and missing ratio <= 0.10,
\* validate_data emits one WARNING carrying N when N > 0 and none when N = 0,
\* and passes for every N; a table that fails an earlier check gets no WARNING.
C4_DuplicatesWarn ==
    (IsTable /\ Done /\ "id" \in Range(file.table.columns)) =>
        IF GridCells(file.table) > 0 /\ RatioWithinThreshold(file.table)
        THEN /\ Passed
             /\ RepeatedIds(file.table) > 0 =>
                   \E i \in Warnings :
                       /\ log[i] = Entry("WARNING", "Found duplicate IDs",
                                         RepeatedIds(file.table))
                       /\ Warnings = {i}
             /\ RepeatedIds(file.table) = 0 => Warnings = {}
        ELSE Warnings = {}

\* ids 1, 2, 1, 2: two rows repeat an earlier id, and validation passes
C4_Witness ==
    /\ IsTable /\ Passed
    /\ "id" \in Range(file.table.columns)
    /\ Col(file.table, "id") = <<V(1), V(2), V(1), V(2)>>
    /\ \E i \in Warnings : log[i].n = 2

\* C5 as the test states it: with 100 rows and two columns, a fraction p of
\* rows missing in col1 passes when p < 0.10 and exits when p > 0.10
\* (p = 0.05 passes, p = 0.15 and p = 0.20 exit).
C5_TestThreshold ==
    (IsTable /\ Done) =>
        LET missing_count == NullCount(file.table.data[1])
        IN  /\ 100 * missing_count < 10 * file.table.index => Passed
            /\ 100 * missing_count > 10 * file.table.index => Exited

----------------------------------------------------------------------------
(* Properties of process_data *)

Derived == {"processed_date", "value_category", "row_number"}

HasCol(t, name) == name \in Range(t.columns)

Occurrences(t, name) == Cardinality({k \in 1..Len(t.columns) : t.columns[k] = name})

\* the category the thresholds 100 and 200 give the number v
CategoryOf(v) ==
    CASE v > 200 -> "high"
      [] v > 100 /\ v <= 200 -> "medium"
      [] v <= 100 -> "low"

\* C6: with a value column, every row with numeric value v gets
\* value_category high if v > 200, medium if 100 < v <= 200, low if v <= 100
\* (100 low, 101 medium, 200 medium, 201 high); without a value column no
\* value_category column is added.
C6_ValueCategory ==
    \A k \in 1..calls :
        IF HasCol(inputs[k], "value")
        THEN /\ HasCol(outputs[k], "value_category")
             /\ \A i \in 1..inputs[k].index :
                    LET x == Col(inputs[k], "value")[i]
                    IN  ~x.null =>
                            Col(outputs[k], "value_category")[i] = V(CategoryOf(x.v))
        ELSE HasCol(outputs[k], "value_category") <=> HasCol(inputs[k], "value_category")

C6_Witness ==
    /\ calls = 1
    /\ HasCol(inputs[1], "value")
    /\ Col(inputs[1], "value") = <<V(100), V(200), V(201)>>
    /\ Col(outputs[1], "value_category") = <<V("low"), V("medium"), V("high")>>

\* C7 as claimed: after the call the caller's table is what it was before the
\* call, and the returned table is another object.
C7_CallerTableUntouched ==
    calls >= 1 =>
        /\ heap[df] = inputs[1]
        /\ processed_df # df

\* C8: process_data applied to its own output overwrites the derived columns:
\* one row_number and one processed_date column, the columns of the first
\* output, and row_number 1..n again.
C8_Reapplied ==
    calls >= 2 =>
        /\ inputs[2] = outputs[1]
        /\ Occurrences(outputs[2], "row_number") = 1
        /\ Occurrences(outputs[2], "processed_date") = 1
        /\ outputs[2].columns = outputs[1].columns
        /\ Len(outputs[2].data) = Len(outputs[2].columns)
        /\ Col(outputs[2], "row_number") = Col(outputs[1], "row_number")
        /\ Col(outputs[2], "row_number") = [i \in 1..outputs[2].index |-> V(i)]

C8_Witness ==
    /\ calls = 2
    /\ outputs[2].index = 3
    /\ outputs[2].columns = <<"name", "value", "processed_date", "value_category", "row_number">>

\* C9: the output has the rows of the input, in the input's order: the same
\* row count, every column of the input that is not a derived one unchanged,
\* and row_number i in row i, whatever row_number the input had.
C9_RowsKept ==
    \A k \in 1..calls :
        /\ outputs[k].index = inputs[k].index
        /\ \A j \in 1..Len(outputs[k].data) : Len(outputs[k].data[j]) = inputs[k].index
        /\ \A c \in Range(inputs[k].columns) \ Derived :
               /\ HasCol(outputs[k], c)
               /\ Col(outputs[k], c) = Col(inputs[k], c)
        /\ \A i \in 1..inputs[k].index : Col(outputs[k], "row_number")[i] = V(i)

C9_Witness ==
    /\ calls = 1
    /\ HasCol(inputs[1], "row_number")
    /\ Col(inputs[1], "row_number") = <<V(5), V(5), V(1)>>
    /\ Col(outputs[1], "row_number") = <<V(1), V(2), V(3)>>
    /\ Col(outputs[1], "value") = Col(inputs[1], "value")

----------------------------------------------------------------------------
(* generate_report *)

MaxRRows == 5      \* rows of the tables generate_report is run on

RECURSIVE GCD(_, _)
GCD(a, b) == IF b = 0 THEN a ELSE GCD(b, a % b)

\* float(x) of an integer, kept exact as a fraction in lowest terms
Float(x) == [num |-> x, den |-> 1]

\* a / b as a float, b > 0
Quotient(a, b) == [num |-> a \div GCD(a, b), den |-> b \div GCD(a, b)]

\* float('nan'): what pandas returns for mean, max, min of no entries
FloatNaN == [nan |-> TRUE]

\* the entries pandas reductions work on: skipna drops the missing ones
NonNull(col) == SelectSeq(col, LAMBDA c : ~c.null)

Values(col) == [i \in 1..Len(NonNull(col)) |-> NonNull(col)[i].v]

\* a breakdown that only notes which values occur
ValueCountsPresence(col) ==
    [s \in Range(Values(col)) |-> 1]

\* line 70: Series.value_counts().to_dict(), missing entries dropped
ValueCounts(col) ==
    [s \in Range(Values(col)) |->
        Cardinality({i \in 1..Len(col) : col[i] = V(s)})]

\* dict.get(key, default)
Get(d, key, default) == IF key \in DOMAIN d THEN d[key] ELSE default

\* Series.sum()
SeriesSum(col) == SumSeq(Values(col))

\* a mean over all rows, missing ones included in the count
SeriesMeanAllRows(col) ==
    IF Len(col) = 0 THEN FloatNaN
    ELSE Quotient(SeriesSum(col), Len(col))

\* Series.mean(): sum over count of the non-missing entries
SeriesMean(col) ==
    IF Len(Values(col)) = 0 THEN FloatNaN
    ELSE Quotient(SeriesSum(col), Len(Values(col)))

\* Series.max()
SeriesMax(col) ==
    IF Len(Values(col)) = 0 THEN FloatNaN
    ELSE Float(CHOOSE m \in Range(Values(col)) : \A x \in Range(Values(col)) : x <= m)

\* Series.min()
SeriesMin(col) ==
    IF Len(Values(col)) = 0 THEN FloatNaN
    ELSE Float(CHOOSE m \in Range(Values(col)) : \A x \in Range(Values(col)) : m <= x)

\* lines 62-79: the dictionary built for the table t, the clock reading clock
ReportOf(t, clock) ==
    LET base == [total_records |-> LenDf(t),
                 processing_date |-> IsoFormat(clock),
                 columns |-> t.columns]
        withStatus ==
            IF "status" \in Range(t.columns)
            THEN [status_breakdown |-> ValueCounts(Col(t, "status")),
                  active_records |-> Get(ValueCounts(Col(t, "status")), "active", 0)]
                 @@ base
            ELSE base
    IN  IF "value" \in Range(t.columns)
        THEN [average_value |-> SeriesMean(Col(t, "value")),
              max_value |-> SeriesMax(Col(t, "value")),
              min_value |-> SeriesMin(Col(t, "value")),
              total_value |-> Float(SeriesSum(Col(t, "value")))]
             @@ withStatus
        ELSE withStatus

\* lines 58-82: generate_report(df)
GenerateReport(ref) ==
    /\ report' = ReportOf(heap[ref], now)
    /\ now' = now + 1
    /\ log' = LogActivity(LogActivity(log, "INFO", "Generating data report", 0),
                          "INFO", "Report generation completed", 0)

\* report = generate_report(sample_data)
ReportCall ==
    /\ report = NoReport
    /\ GenerateReport(df)
    /\ UNCHANGED <<file, pc, vdf, exc, evaluated, result, exits>>
    /\ UNCHANGED <<heap, df, processed_df, calls, inputs, outputs, samples>>
    /\ UNCHANGED <<mvars, tvars>>

NextReport == ReportCall

\* values the columns of the tables generate_report is run on hold
RCellsOf(name) ==
    CASE name = "status" -> {NaN, V("active"), V("inactive"), V("pending")}
      [] name = "value" -> {NaN, V(100), V(150), V(200), V(250), V(300)}
      [] OTHER -> {NaN, V(7)}

ROneColumn == {"status", "value", "name"}

\* tests/test_data_processor.py, the sample_data fixture
SampleData ==
    Table(5, <<"id", "name", "value", "status", "email">>,
          << <<V(1), V(2), V(3), V(4), V(5)>>,
             <<V("Record A"), V("Record B"), V("Record C"), V("Record D"), V("Record E")>>,
             <<V(100), V(200), V(150), V(300), V(250)>>,
             <<V("active"), V("active"), V("inactive"), V("active"), V("pending")>>,
             <<V("test@example.com"), V("user@test.com"), V("invalid-email"),
               V("admin@company.org"), V("support@help.net")>> >>)

InitR ==
    /\ \/ heap = <<SampleData>>
       \/ \E n \in 0..MaxRRows, c \in ROneColumn :
             \E d \in [1..n -> RCellsOf(c)] :
                 heap = <<Table(n, <<c>>, <<d>>)>>
       \/ \E n \in 0..(MaxRRows - 3) :
             \E d1 \in [1..n -> RCellsOf("status")], d2 \in [1..n -> RCellsOf("value")] :
                 heap = <<Table(n, <<"status", "value">>, <<d1, d2>>)>>
    /\ df = 1
    /\ processed_df = 0
    /\ now = 0
    /\ calls = 0
    /\ inputs = <<>>
    /\ outputs = <<>>
    /\ samples = <<>>
    /\ file = FailedFile("FileNotFoundError")
    /\ InitValidate
    /\ InitReportIdle
    /\ InitMainIdle
    /\ InitRetryIdle

SpecR == InitR /\ [][NextReport]_vars

----------------------------------------------------------------------------
(* Properties of generate_report *)

Reported == report # NoReport

HasKey(k) == k \in DOMAIN report

\* rows of the table whose column c holds the value x
RowsWith(t, c, x) == {i \in 1..t.index : Col(t, c)[i] = V(x)}

\* rows of the table whose column c is not missing
Present(t, c) == {i \in 1..t.index : ~Col(t, c)[i].null}

RECURSIVE SumOver(_, _)
SumOver(S, col) ==
    IF S = {} THEN 0
    ELSE LET i == CHOOSE i \in S : TRUE
         IN  col[i].v + SumOver(S \ {i}, col)

\* C11: with a status column, status_breakdown maps each distinct observed
\* status to the number of rows carrying it and active_records is the number
\* of rows whose status is 'active' (0 when none); without a status column
\* neither key is in the report.
C11_StatusBreakdown ==
    Reported =>
        LET t == heap[df]
        IN  IF HasCol(t, "status")
            THEN /\ HasKey("status_breakdown") /\ HasKey("active_records")
                 /\ DOMAIN report.status_breakdown =
                        {Col(t, "status")[i].v : i \in Present(t, "status")}
                 /\ \A x \in DOMAIN report.status_breakdown :
                        report.status_breakdown[x] = Cardinality(RowsWith(t, "status", x))
                 /\ report.active_records = Cardinality(RowsWith(t, "status", "active"))
            ELSE ~HasKey("status_breakdown") /\ ~HasKey("active_records")

\* statuses active, active, inactive, active, pending
C11_Witness ==
    /\ Reported
    /\ HasCol(heap[df], "status")
    /\ Col(heap[df], "status") =
           <<V("active"), V("active"), V("inactive"), V("active"), V("pending")>>
    /\ report.active_records = 3
    /\ report.status_breakdown = [active |-> 3, inactive |-> 1, pending |-> 1]

\* C12: with a value column, total_value, max_value, min_value and
\* average_value are the sum, the maximum, the minimum and sum / count of the
\* non-missing value entries (for 100, 200, 150, 300, 250: average 200, max
\* 300, min 100, total 1000); total_records counts every row, also those
\* whose value is missing.
C12_ValueAggregates ==
    Reported =>
        LET t == heap[df]
        IN  /\ report.total_records = t.index
            /\ HasCol(t, "value") =>
                  LET P == Present(t, "value")
                      col == Col(t, "value")
                  IN  /\ report.total_value = Float(SumOver(P, col))
                      /\ P # {} =>
                            /\ \E i \in P : report.max_value = Float(col[i].v)
                            /\ \A i \in P : col[i].v <= report.max_value.num
                            /\ \E i \in P : report.min_value = Float(col[i].v)
                            /\ \A i \in P : col[i].v >= report.min_value.num
                            /\ report.average_value.den > 0
                            /\ report.average_value.num * Cardinality(P) =
                                   SumOver(P, col) * report.average_value.den
                      /\ col = <<V(100), V(200), V(150), V(300), V(250)>> =>
                            /\ report.average_value = Float(200)
                            /\ report.max_value = Float(300)
                            /\ report.min_value = Float(100)
                            /\ report.total_value = Float(1000)

\* values 100, 200, 150 with two missing entries among five rows: average 150
C12_Witness ==
    /\ Reported
    /\ HasCol(heap[df], "value")
    /\ Col(heap[df], "value") = <<V(100), NaN, V(200), V(150), NaN>>
    /\ report.total_records = 5
    /\ report.average_value = Float(150)
    /\ report.max_value = Float(200)
    /\ report.min_value = Float(100)
    /\ report.total_value = Float(450)

----------------------------------------------------------------------------
(* utils.retry_operation *)

MaxAttempts == 4   \* max_attempts is in 1..MaxAttempts
MaxDelay == 3      \* delay is in 1..MaxDelay

RECURSIVE Pow2(_)
Pow2(k) == IF k = 0 THEN 1 ELSE 2 * Pow2(k - 1)

\* what one call of operation can do: return a value or raise
OpResults == {"a", "b"}

Returned(x) == [kind |-> "return", value |-> x]

Raised(k) == [kind |-> "raise", value |-> k]

\* a test that takes one attempt more to be the last
LastAttemptLate(a, n) == a = n

\* line 194: attempt == max_attempts - 1
LastAttempt(a, n) == a = n - 1

\* line 198: delay * (2 ** attempt)
WaitTime(d, a) == d * Pow2(a)

\* lines 190-192: the loop body is entered, operation() is called and returns;
\* retry_operation returns its result
AttemptSucceeds ==
    /\ rpc = "loop"
    /\ \E x \in OpResults :
          /\ outcomes' = Append(outcomes, Returned(x))
          /\ rresult' = Returned(x)
    /\ rpc' = "returned"
    /\ UNCHANGED <<max_attempts, delay, attempt, sleeps>>
    /\ UNCHANGED <<vvars, pvars, report, mvars>>

\* lines 190-200: operation() raises. On the last attempt the exception is
\* raised again; otherwise the wait is slept and the loop goes on, and a loop
\* that runs out of attempts falls off the end of the function (returns None)
AttemptFails ==
    /\ rpc = "loop"
    /\ outcomes' = Append(outcomes, Raised(attempt + 1))
    /\ IF LastAttempt(attempt, max_attempts)
       THEN /\ rresult' = Raised(attempt + 1)
            /\ rpc' = "raised"
            /\ UNCHANGED <<attempt, sleeps>>
       ELSE /\ sleeps' = Append(sleeps, WaitTime(delay, attempt))
            /\ attempt' = attempt + 1
            /\ rpc' = IF attempt + 1 < max_attempts THEN "loop" ELSE "returned"
            /\ rresult' = rresult
    /\ UNCHANGED <<max_attempts, delay>>
    /\ UNCHANGED <<vvars, pvars, report, mvars>>

NextRetry ==
    \/ AttemptSucceeds
    \/ AttemptFails

\* retry_operation(operation, max_attempts, delay) is called
InitRetry ==
    /\ max_attempts \in 1..MaxAttempts
    /\ delay \in 1..MaxDelay
    /\ attempt = 0
    /\ rpc = "loop"
    /\ outcomes = <<>>
    /\ sleeps = <<>>
    /\ rresult = Nothing
    /\ file = FailedFile("FileNotFoundError")
    /\ InitValidate
    /\ InitProcessIdle
    /\ InitReportIdle
    /\ InitMainIdle

SpecRetry == InitRetry /\ [][NextRetry]_vars

----------------------------------------------------------------------------
(* Properties of retry_operation *)

OpCalls == Len(outcomes)

RetryDone == rpc \in {"returned", "raised"}

\* C14: operation is called one attempt after another, at most max_attempts
\* times; the first success ends the call with that attempt's result and no
\* further call; when all attempts raise, the exception of the last one is
\* raised after exactly max_attempts calls; the waits are delay x 2^k after
\* failed attempt k and there is none after the last attempt.
C14_Retry ==
    /\ OpCalls <= max_attempts
    /\ \A k \in 1..(OpCalls - 1) : outcomes[k].kind = "raise"
    /\ rpc = "loop" => (OpCalls = attempt /\ Len(sleeps) = OpCalls)
    /\ \A k \in 1..Len(sleeps) : sleeps[k] = delay * (2 ^ (k - 1))
    /\ Len(sleeps) <= max_attempts - 1
    /\ rpc = "returned" =>
          /\ outcomes[OpCalls].kind = "return"
          /\ rresult = outcomes[OpCalls]
          /\ Len(sleeps) = OpCalls - 1
    /\ rpc = "raised" =>
          /\ OpCalls = max_attempts
          /\ outcomes[OpCalls].kind = "raise"
          /\ rresult = Raised(max_attempts)
          /\ Len(sleeps) = max_attempts - 1
    /\ RetryDone => ~ENABLED NextRetry

\* two failures, then the third of four attempts succeeds
C14_Witness ==
    /\ rpc = "returned"
    /\ max_attempts = 4
    /\ OpCalls = 3
    /\ rresult = Returned("b")
    /\ sleeps = <<delay, 2 * delay>>

----------------------------------------------------------------------------
(* __main__ *)

MaxMRows == 2      \* rows of the files __main__ is run on

\* max_missing_percentage values a configuration file supplies, in percent
ConfigPercents == {5, 10, 50}

\* utils.load_config: the parsed JSON, or {} when the file is absent or invalid
Configs ==
    {EmptyDict}
    \cup {[validation |-> [max_missing_percentage |-> p]] : p \in ConfigPercents}

\* header rows of the files __main__ is run on
MTwoColumns == {<<"id", "name">>, <<"name", "value">>}

\* a guard that only waits for validate_data to be over
ValidationOver == pc \in {"returned", "exited"}

\* line 96: if validate_data(args.validate): reached only when the call
\* returned, and true for the True it returns
ValidationPassed == pc = "returned" /\ result = True

\* f"{x:.2f}": the number written with two decimals
Format2f(x) == <<"%.2f", x>>

\* lines 110-116: the summary lines printed for the report r
Summary(r) ==
    <<[label |-> "--- DATA PROCESSING REPORT ---", value |-> 0],
      [label |-> "Total Records", value |-> r.total_records]>>
    \o (IF "active_records" \in DOMAIN r
        THEN <<[label |-> "Active Records", value |-> r.active_records]>>
        ELSE <<>>)
    \o (IF "average_value" \in DOMAIN r
        THEN <<[label |-> "Average Value", value |-> Format2f(r.average_value)]>>
        ELSE <<>>)
    \o <<[label |-> "Processing Date", value |-> r.processing_date]>>

\* line 93: config = load_config(args.config)
MainLoadConfig ==
    /\ mpc = "config"
    /\ \E c \in Configs : config' = c
    /\ mpc' = "validate"
    /\ UNCHANGED <<output_arg, stages, outfile, printed>>
    /\ UNCHANGED <<vvars, pvars, report, tvars>>

\* line 96: validate_data(args.validate) is called
MainValidate ==
    /\ mpc = "validate"
    /\ pc = "idle"
    /\ pc' = "start"
    /\ mpc' = "validating"
    /\ stages' = Append(stages, "validate")
    /\ UNCHANGED <<file, vdf, exc, log, evaluated, result, exits>>
    /\ UNCHANGED <<config, output_arg, outfile, printed>>
    /\ UNCHANGED <<pvars, report, tvars>>

\* lines 96-98: the validation passed; df = pd.read_csv(args.validate) parses
\* the file validate_data has just parsed
MainReload ==
    /\ mpc = "validating"
    /\ ValidationPassed
    /\ file.kind = "table"
    /\ heap' = <<file.table>>
    /\ df' = 1
    /\ mpc' = "process"
    /\ UNCHANGED <<processed_df, now, calls, inputs, outputs, samples>>
    /\ UNCHANGED <<config, output_arg, stages, outfile, printed>>
    /\ UNCHANGED <<vvars, report, tvars>>

\* line 99: processed_df = process_data(df)
MainProcess ==
    /\ mpc = "process"
    /\ ProcessData(df)
    /\ mpc' = "report"
    /\ stages' = Append(stages, "transform")
    /\ UNCHANGED <<file, pc, vdf, exc, evaluated, result, exits, df>>
    /\ UNCHANGED <<config, output_arg, outfile, printed>>
    /\ UNCHANGED <<report, tvars>>

\* line 102: report = generate_report(processed_df)
MainReport ==
    /\ mpc = "report"
    /\ GenerateReport(processed_df)
    /\ mpc' = "save"
    /\ stages' = Append(stages, "report")
    /\ UNCHANGED <<file, pc, vdf, exc, evaluated, result, exits>>
    /\ UNCHANGED <<heap, df, processed_df, calls, inputs, outputs, samples>>
    /\ UNCHANGED <<config, output_arg, outfile, printed>>
    /\ UNCHANGED tvars

\* lines 105-107: if args.output: processed_df.to_csv(args.output); log it
MainSave ==
    /\ mpc = "save"
    /\ IF output_arg
       THEN /\ outfile' = heap[processed_df]
            /\ log' = LogActivity(log, "INFO", "Processed data saved", 0)
            /\ stages' = Append(stages, "write")
       ELSE UNCHANGED <<outfile, log, stages>>
    /\ mpc' = "print"
    /\ UNCHANGED <<file, pc, vdf, exc, evaluated, result, exits>>
    /\ UNCHANGED <<config, output_arg, printed>>
    /\ UNCHANGED <<pvars, report, tvars>>

\* lines 110-116: the report summary is printed
MainPrint ==
    /\ mpc = "print"
    /\ printed' = Summary(report)
    /\ mpc' = "done"
    /\ stages' = Append(stages, "print")
    /\ UNCHANGED <<config, output_arg, outfile>>
    /\ UNCHANGED <<vvars, pvars, report, tvars>>

NextMain ==
    \/ MainLoadConfig
    \/ MainValidate
    \/ ReadCsv
    \/ CheckEmpty
    \/ CheckMissing
    \/ CheckDuplicates
    \/ ReturnTrue
    \/ ExceptExit
    \/ MainReload
    \/ MainProcess
    \/ MainReport
    \/ MainSave
    \/ MainPrint

\* the command line names a file to validate and, optionally, an output path
InitM ==
    /\ \/ \E e \in LoaderErrors : file = FailedFile(e)
       \/ \E n \in 0..MaxMRows, cs \in MTwoColumns :
             \E d1 \in [1..n -> CellsOf(cs[1])], d2 \in [1..n -> CellsOf(cs[2])] :
                 file = ParsedFile(Table(n, cs, <<d1, d2>>))
    /\ output_arg \in BOOLEAN
    /\ mpc = "config"
    /\ config = EmptyDict
    /\ stages = <<>>
    /\ outfile = NoFile
    /\ printed = <<>>
    /\ pc = "idle"
    /\ vdf = NoTable
    /\ exc = None
    /\ log = <<>>
    /\ evaluated = <<>>
    /\ result = None
    /\ exits = <<>>
    /\ InitProcessIdle
    /\ InitReportIdle
    /\ InitRetryIdle

SpecM == InitM /\ [][NextMain]_vars

----------------------------------------------------------------------------
(* Properties of __main__ *)

\* the threshold in percent the run would apply were it taken from the
\* configuration: the supplied value, 10 when none is supplied
InjectedPercent ==
    IF "validation" \in DOMAIN config
    THEN config.validation.max_missing_percentage
    ELSE 10

\* C13 as claimed: validate_data fails exactly when the missing ratio exceeds
\* the threshold the loaded configuration supplies, 0.10 when there is none.
C13_InjectedThreshold ==
    (IsTable /\ Done /\ GridCells(file.table) > 0) =>
        /\ Passed <=>
              100 * MissingCells(file.table) <= InjectedPercent * GridCells(file.table)
        /\ Exited <=>
              100 * MissingCells(file.table) > InjectedPercent * GridCells(file.table)

StageOrder ==
    IF output_arg
    THEN <<"validate", "transform", "report", "write", "print">>
    ELSE <<"validate", "transform", "report", "print">>

LaterStages == {"transform", "report", "write", "print"}

\* C15: the stages of a run occur in the order validate, transform, report,
\* optional write, print; the later stages happen only after the validation
\* of the run passed; a run whose validation fails carries out none of them,
\* writes no file and prints nothing; WARNING diagnostics block no stage.
C15_StageOrder ==
    /\ Len(stages) <= Len(StageOrder)
    /\ \A k \in 1..Len(stages) : stages[k] = StageOrder[k]
    /\ (Range(stages) \cap LaterStages # {}) => Passed
    /\ report # NoReport => "report" \in Range(stages)
    /\ outfile # NoFile => ("write" \in Range(stages) /\ output_arg)
    /\ printed # <<>> => "print" \in Range(stages)
    /\ mpc = "done" => stages = StageOrder
    /\ ~Passed =>
          /\ Range(stages) \subseteq {"validate"}
          /\ report = NoReport
          /\ outfile = NoFile
          /\ printed = <<>>
    /\ pc = "exited" => ~ENABLED NextMain
    /\ (Passed /\ mpc # "done") => ENABLED NextMain

\* a run with duplicate ids: the WARNING is emitted and every stage follows
C15_Witness ==
    /\ mpc = "done"
    /\ Warnings # {}
    /\ stages = <<"validate", "transform", "report", "write", "print">>
    /\ outfile = heap[processed_df]
    /\ printed # <<>>

=============================================================================
